---- MODULE Spec2Model ----
(***************************************************************************)
(* Model of pidrone_pkg scripts/picam_flow_class.py (class AnalyzeFlow)    *)
(* and scripts/mocap_state_estimator.py (class MocapStateEstimator and its *)
(* main program).  The two are separate programs: each specification       *)
(* below runs one of them and leaves the variables of the other alone.     *)
(*                                                                         *)
(* Numbers.  Python floats are modelled by exact values:                   *)
(*   - a rational is a pair <<n, d>> in lowest terms with d > 0;           *)
(*   - a filter weight is a record [n |-> rational, r |-> rational] that   *)
(*     stands for n / sqrt(r) (an offset divided by the Euclidean norm of  *)
(*     its grid, r being the squared norm); r = 0 is the result of a       *)
(*     division by a zero norm: NaN for 0/0, +-inf otherwise;              *)
(*   - arctan is kept symbolic, arctan(0) = 0 being the only value used    *)
(*     in comparisons.                                                     *)
(* Rounding of IEEE doubles is not modelled.                               *)
(*                                                                         *)
(* The estimator object is the function self from attribute names to       *)
(* values: an attribute exists exactly when its name is in DOMAIN self.    *)
(***************************************************************************)
EXTENDS Integers, Sequences, FiniteSets, TLC

\* the flow estimator
VARIABLES self, phase, cam, imu, bus, hist

\* the mocap relay: the object, the position of the main program, the output
\* topics and the record of the callbacks that have run
VARIABLES mse, main, topics, mhist

flowVars == <<self, phase, cam, imu, bus, hist>>
mocapVars == <<mse, main, topics, mhist>>
vars == <<self, phase, cam, imu, bus, hist, mse, main, topics, mhist>>

-----------------------------------------------------------------------------
(* Bounds of the model *)

MaxTime == 1
MaxCalls == 3

-----------------------------------------------------------------------------
(* Exact rational arithmetic *)

Abs(a) == IF a < 0 THEN -a ELSE a

RECURSIVE GCD(_, _)
GCD(a, b) == IF b = 0 THEN a ELSE GCD(b, a % b)

Rat(n, d) ==
    LET s == IF d < 0 THEN -1 ELSE 1
        g == GCD(Abs(n), Abs(d))
    IN  <<(s * n) \div g, (s * d) \div g>>

Zero == <<0, 1>>
One == <<1, 1>>
FromInt(k) == <<k, 1>>

RAdd(p, q) == Rat(p[1] * q[2] + q[1] * p[2], p[2] * q[2])
RNeg(p) == <<-p[1], p[2]>>
RSub(p, q) == RAdd(p, RNeg(q))
RMul(p, q) == Rat(p[1] * q[1], p[2] * q[2])
RDiv(p, q) == Rat(p[1] * q[2], p[2] * q[1])
RSign(p) == IF p[1] > 0 THEN 1 ELSE IF p[1] < 0 THEN -1 ELSE 0

-----------------------------------------------------------------------------
(* Weights n / sqrt(r): the quotient of a grid entry by the grid's norm *)

NaN == [n |-> Zero, r |-> Zero]
IsNaN(v) == v.r = Zero /\ v.n = Zero
IsFinite(v) == v.r # Zero

\* x / sqrt(normsq) as numpy divides: 0/0 is nan, x/0 is +-inf, no exception
FDivNorm(x, normsq) ==
    IF normsq = Zero
    THEN IF x = Zero THEN NaN ELSE [n |-> FromInt(RSign(x)), r |-> Zero]
    ELSE [n |-> x, r |-> normsq]

\* -1 * v
FNeg(v) == IF IsNaN(v) THEN NaN ELSE [n |-> RNeg(v.n), r |-> v.r]

\* IEEE equality of two weights: nan equals nothing, itself included
FEq(u, v) ==
    /\ ~IsNaN(u)
    /\ ~IsNaN(v)
    /\ u.r = v.r
    /\ u.n = v.n

\* integer k times weight v
FScale(k, v) ==
    IF IsNaN(v) THEN NaN
    ELSE IF v.r = Zero
         THEN IF k = 0 THEN NaN ELSE [n |-> FromInt(k * RSign(v.n)), r |-> Zero]
         ELSE [n |-> RMul(FromInt(k), v.n), r |-> v.r]

-----------------------------------------------------------------------------
(* Lateral velocities: q + arctan(atan) * coef, arctan kept symbolic *)

MkLat(q, arg, coef) ==
    IF arg = Zero \/ coef = Zero
    THEN [q |-> q, atan |-> Zero, coef |-> Zero]
    ELSE [q |-> q, atan |-> arg, coef |-> coef]

LatZero == MkLat(Zero, Zero, Zero)

(* Filter responses: a + b, one weight-sum per filter grid *)

FZero == [n |-> Zero, r |-> One]
DotZero == [a |-> FZero, b |-> FZero]

\* a.n/sqrt(a.r) + b.n/sqrt(b.r) = 0 in exact arithmetic
DotIsZero(z) ==
    /\ IsFinite(z.a)
    /\ IsFinite(z.b)
    /\ RSign(z.a.n) = -RSign(z.b.n)
    /\ RMul(RMul(z.a.n, z.a.n), z.b.r) = RMul(RMul(z.b.n, z.b.n), z.a.r)

-----------------------------------------------------------------------------
(* Attributes of the estimator object *)

HasAttr(s, a) == a \in DOMAIN s

SetAttrs(s, upd) ==
    [k \in DOMAIN s \cup DOMAIN upd |-> IF k \in DOMAIN upd THEN upd[k] ELSE s[k]]

NoAttrs == [k \in {} |-> Zero]

-----------------------------------------------------------------------------
(* Grids: functions on the cells <<j, i>>, row j and column i from 0 *)

BlockSize == 16

Cells(num_rows, width_cols) == (0 .. num_rows - 1) \X (0 .. width_cols - 1)

\* the sum of the entries lo .. hi of a grid, counted row by row, by halving
RECURSIVE RSumSpan(_, _, _, _)
RSumSpan(f, width_cols, lo, hi) ==
    IF lo = hi THEN f[<<lo \div width_cols, lo % width_cols>>]
    ELSE LET half == (lo + hi) \div 2
         IN  RAdd(RSumSpan(f, width_cols, lo, half),
                  RSumSpan(f, width_cols, half + 1, hi))

\* np.sum of a grid of rationals; S is the grid's set of cells
RSum(f, S) ==
    IF S = {} THEN Zero
    ELSE RSumSpan(f, Cardinality({c[2] : c \in S}), 0, Cardinality(S) - 1)

RECURSIVE ISumSpan(_, _, _, _)
ISumSpan(f, width_cols, lo, hi) ==
    IF lo = hi THEN f[<<lo \div width_cols, lo % width_cols>>]
    ELSE LET half == (lo + hi) \div 2
         IN  ISumSpan(f, width_cols, lo, half)
               + ISumSpan(f, width_cols, half + 1, hi)

\* np.sum of a grid of integers; S is the grid's set of cells
ISum(f, S) ==
    IF S = {} THEN 0
    ELSE ISumSpan(f, Cardinality({c[2] : c \in S}), 0, Cardinality(S) - 1)

\* the square of np.linalg.norm of a grid (Frobenius norm)
NormSq(g) == RSum([c \in DOMAIN g |-> RMul(g[c], g[c])], DOMAIN g)

\* g /= np.linalg.norm(g)
Normalise(g) ==
    LET normsq == NormSq(g)
    IN  [c \in DOMAIN g |-> FDivNorm(g[c], normsq)]

\* get_z_filter without its assertion
GeometryOK_Unchecked(width, height) == TRUE

\* the assertion of get_z_filter
GeometryOK(width, height) == width % BlockSize = 0 /\ height % BlockSize = 0

\* a z filter without the padding column
get_z_filter_NoPadding(s, wh) ==
    LET num_rows == wh[2] \div BlockSize
        num_cols == wh[1] \div BlockSize
        cells == Cells(num_rows, num_cols)
        fx == [c \in cells |-> RSub(FromInt(c[2]), Rat(num_cols - 1, 2))]
        fy == [c \in cells |-> RSub(FromInt(c[1]), Rat(num_rows - 1, 2))]
    IN  SetAttrs(s, [z_filter_x |-> Normalise(fx), z_filter_y |-> Normalise(fy)])

get_z_filter(s, wh) ==
    LET width == wh[1]
        height == wh[2]
        num_rows == height \div BlockSize
        num_cols == width \div BlockSize
        mid_row == Rat(num_rows - 1, 2)
        mid_col == Rat(num_cols - 1, 2)
        cells == Cells(num_rows, num_cols + 1)
        \* np.zeros, then the double loop over range(num_cols), range(num_rows)
        fx == [c \in cells |->
                 IF c[2] < num_cols THEN RSub(FromInt(c[2]), mid_col) ELSE Zero]
        fy == [c \in cells |->
                 IF c[2] < num_cols THEN RSub(FromInt(c[1]), mid_row) ELSE Zero]
    IN  SetAttrs(s, [z_filter_x |-> Normalise(fx), z_filter_y |-> Normalise(fy)])

get_yaw_filter(s) ==
    SetAttrs(s, [yaw_filter_x |-> s.z_filter_y,
                 yaw_filter_y |-> [c \in DOMAIN s.z_filter_x |-> FNeg(s.z_filter_x[c])]])

\* flow_scale=16.5, the default of setup
flow_scale == Rat(33, 2)

\* TwistStamped(): every field zero
TwistStamped ==
    [linear_x |-> LatZero, linear_y |-> LatZero, linear_z |-> DotZero,
     angular_z |-> DotZero, stamp |-> 0]

\* the body of setup after the two filter calls, lines 100-117
SetupFields(s, wh, t) ==
    LET max_flow == RMul(RMul(RDiv(FromInt(wh[1]), FromInt(BlockSize)),
                              RDiv(FromInt(wh[2]), FromInt(BlockSize))),
                         FromInt(2 ^ 7))
    IN  SetAttrs(s,
          [ang_vx |-> Zero, ang_vy |-> Zero, prev_angx |-> Zero, prev_angy |-> Zero,
           prev_imu_time |-> 0, prev_time |-> t, ang_coefficient |-> One,
           x_motion |-> LatZero, y_motion |-> LatZero,
           z_motion |-> DotZero, yaw_motion |-> DotZero,
           max_flow |-> max_flow, norm_flow_to_cm |-> flow_scale,
           flow_coeff |-> RDiv(flow_scale, max_flow),
           pub |-> "/pidrone/plane_err", alpha |-> Rat(3, 10),
           velocity |-> TwistStamped])

-----------------------------------------------------------------------------
(* Inputs *)

\* camera resolutions offered to setup: valid ones, among them the smallest
\* (a single block column or row), and ones that are no multiple of 16
Resolutions == {<<48, 16>>, <<16, 32>>, <<48, 32>>, <<24, 32>>, <<32, 40>>}

FlowVals == {-1, 0, 2}

\* the cells of a motion-vector frame for resolution wh, padding column included
FrameCells(wh) ==
    Cells((wh[2] + BlockSize - 1) \div BlockSize,
          (wh[1] + BlockSize - 1) \div BlockSize + 1)

Uniform(wh, k, l) ==
    [x |-> [c \in FrameCells(wh) |-> k], y |-> [c \in FrameCells(wh) |-> l]]

Impulse(wh, at, k) ==
    [x |-> [c \in FrameCells(wh) |-> IF c = at THEN k ELSE 0],
     y |-> [c \in FrameCells(wh) |-> 0]]

\* the cell of row 0 in the trailing padding column
PaddingCell(wh) == <<0, (wh[1] + BlockSize - 1) \div BlockSize>>

\* the frames delivered to analyse: the fields 'x' and 'y' of the motion data
\* (the field 'sad' is read into a local that is never used)
Frames(wh) ==
    {Uniform(wh, k, 0) : k \in FlowVals} \cup {Uniform(wh, 0, 2)}
      \cup {Impulse(wh, PaddingCell(wh), 1)}

\* the resolutions and frames of the synthetic flow fields: two grids of
\* several rows and columns, a grid of one column and a grid of one row
TestResolutions == {<<48, 32>>, <<64, 48>>, <<16, 32>>, <<48, 16>>}

\* gains of the synthetic fields; they are even, so that g times an offset
\* from a half-integer centre is an integer displacement
Gains == {-2, 2, 4}

\* 2 * (index - (count - 1)/2), twice the offset of an index from the centre
TwiceOffset(index, count) == 2 * index - (count - 1)

\* dx = g * (i - mid_col), dy = g * (j - mid_row), zero in the padding column
Radial(wh, g) ==
    LET num_rows == wh[2] \div BlockSize
        num_cols == wh[1] \div BlockSize
    IN  [x |-> [c \in FrameCells(wh) |->
                  IF c[2] < num_cols
                  THEN (g \div 2) * TwiceOffset(c[2], num_cols) ELSE 0],
         y |-> [c \in FrameCells(wh) |->
                  IF c[2] < num_cols
                  THEN (g \div 2) * TwiceOffset(c[1], num_rows) ELSE 0]]

\* dx = g * (j - mid_row), dy = -g * (i - mid_col), zero in the padding column
Tangential(wh, g) ==
    LET num_rows == wh[2] \div BlockSize
        num_cols == wh[1] \div BlockSize
    IN  [x |-> [c \in FrameCells(wh) |->
                  IF c[2] < num_cols
                  THEN (g \div 2) * TwiceOffset(c[1], num_rows) ELSE 0],
         y |-> [c \in FrameCells(wh) |->
                  IF c[2] < num_cols
                  THEN -(g \div 2) * TwiceOffset(c[2], num_cols) ELSE 0]]

TestFrames(wh) ==
    {Uniform(wh, 0, 0)} \cup {Radial(wh, g) : g \in Gains}
      \cup {Tangential(wh, g) : g \in Gains}

\* camera_wh = (320,240), the default of setup
DefaultResolution == <<320, 240>>

\* the frames of the default resolution: no motion, and a radial field
DefaultFrames(wh) == {Uniform(wh, 0, 0), Radial(wh, 2)}

\* time stamps and clock readings count tenths of a second
Seconds(k) == Rat(k, 10)

StampVals == {1, 2}

\* orientation samples: the roll and pitch angles of msg.orientation (what
\* euler_from_quaternion would return for it) and msg.header.time
Samples ==
    {[angx |-> a[1], angy |-> a[2], time |-> k] :
        a \in {<<Zero, Zero>>, <<Rat(1, 10), Rat(1, 5)>>}, k \in StampVals}

NoSample == [angx |-> Zero, angy |-> Zero, time |-> 0]

-----------------------------------------------------------------------------
(* State *)

CamIdle == [pc |-> "idle", frame |-> Uniform(<<0, 0>>, 0, 0), diff_time |-> 0,
            vx |-> Zero, vy |-> Zero, raised |-> "none"]

ImuIdle == [pc |-> "idle", msg |-> NoSample, wrote |-> Zero, raised |-> "none"]

-----------------------------------------------------------------------------
(* The mocap relay: samples, messages and the object *)

\* float64 fields count fifths of a unit: 25 is the square of 1
UnitSq == 25

Vectors == {<<5, 10, 15>>, <<0, -5, 10>>}

\* quaternions <<x, y, z, w>> of unit norm
Orientations == {<<0, 0, 0, 5>>, <<3, 0, 0, 4>>, <<0, 3, 4, 0>>}

\* geometry_msgs PoseStamped, TwistStamped and AccelStamped as delivered
PoseSamples ==
    [stamp : StampVals, frame_id : {"mocap"},
     position : Vectors, orientation : Orientations]

TwistSamples ==
    [stamp : StampVals, frame_id : {"mocap"}, linear : Vectors, angular : Vectors]

AccelSamples ==
    [stamp : StampVals, frame_id : {"mocap"}, linear : Vectors, angular : Vectors]

\* the messages as their constructors return them: every field zero or empty
PoseWithCovarianceStamped ==
    [stamp |-> 0, frame_id |-> "",
     position |-> <<0, 0, 0>>, orientation |-> <<0, 0, 0, 0>>]

TwistWithCovarianceStamped ==
    [stamp |-> 0, frame_id |-> "", linear |-> <<0, 0, 0>>, angular |-> <<0, 0, 0>>]

AccelWithCovarianceStamped ==
    [stamp |-> 0, frame_id |-> "", linear |-> <<0, 0, 0>>, angular |-> <<0, 0, 0>>]

Streams == {"pose", "twist", "accel"}

\* the topic of each publisher, lines 99-101
TopicOf == [pose |-> "/pidrone/pose", twist |-> "/pidrone/twist",
            accel |-> "/pidrone/accel"]

\* MocapStateEstimator.__init__
MocapStateEstimator ==
    [posepub |-> "None", twistpub |-> "None", accelpub |-> "None",
     received_data |-> FALSE]

MocapInit ==
    /\ mse = MocapStateEstimator
    /\ main = "L89"
    /\ topics = [tp \in {TopicOf[s] : s \in Streams} |->
                   [n |-> 0,
                    last |-> CASE tp = TopicOf.pose -> PoseWithCovarianceStamped
                               [] tp = TopicOf.twist -> TwistWithCovarianceStamped
                               [] tp = TopicOf.accel -> AccelWithCovarianceStamped]]
    /\ mhist = [calls |-> 0,
                returned |-> [s \in Streams |-> 0],
                sample |-> [s \in Streams |-> <<>>]]

Init ==
    /\ MocapInit
    /\ self = NoAttrs
    /\ phase = "new"
    /\ cam = CamIdle
    /\ imu = ImuIdle
    /\ bus = [n |-> 0, last |-> TwistStamped]
    /\ hist = [wh |-> <<0, 0>>, calls |-> 0, ticks |-> 0, returned |-> 0,
               log |-> <<>>, before |-> <<Zero, Zero>>, pairs |-> {},
               mid |-> FALSE]

\* the readings time.time() can return after the reading last: the clock
\* does not run backwards; it counts tenths of a second from the call of setup
ClockAfter(last) == last .. MaxTime

-----------------------------------------------------------------------------
(* setup *)

Setup(resolutions) ==
    /\ phase = "new"
    /\ \E wh \in resolutions :
         /\ hist' = [hist EXCEPT !.wh = wh]
         /\ IF GeometryOK(wh[1], wh[2])
            THEN /\ self' = SetupFields(get_yaw_filter(get_z_filter(self, wh)), wh, 0)
                 /\ phase' = "ready"
            ELSE \* AssertionError out of get_z_filter, before any assignment
                 /\ self' = self
                 /\ phase' = "setup_failed"
    /\ UNCHANGED <<cam, imu, bus, mse, main, topics, mhist>>

setup == Setup(Resolutions)

\* setup with its default resolution
setup_default == Setup({DefaultResolution})

\* setup for the synthetic flow fields
setup_test == Setup(TestResolutions)

-----------------------------------------------------------------------------
(* analyse: one call per motion-vector frame, run by the camera's thread *)

\* np.sum(np.multiply(x, f)) for an integer grid x and a filter grid f
FDot(x, f) ==
    LET terms == [c \in DOMAIN f |-> FScale(x[c], f[c])]
        bad == {c \in DOMAIN f : ~IsFinite(terms[c])}
        any == CHOOSE c \in DOMAIN f : TRUE
    IN  IF bad # {}
        THEN IF \E c, d \in bad : IsNaN(terms[c]) \/ terms[c].n # terms[d].n
             THEN NaN
             ELSE terms[CHOOSE c \in bad : TRUE]
        ELSE [n |-> RSum([c \in DOMAIN f |-> terms[c].n], DOMAIN f), r |-> f[any].r]

\* a publish that loses the message
Publish_Dropped(b, msg) == b

\* self.pub.publish(self.velocity) on a publisher of queue_size=1
Publish(b, msg) == [n |-> b.n + 1, last |-> msg]

AnalyseCall(frames) ==
    /\ phase \in {"ready", "setup_failed"}
    /\ cam.pc = "idle"
    /\ hist.calls < MaxCalls
    /\ \E a \in frames :
         cam' = [CamIdle EXCEPT !.pc = "L20", !.frame = a]
    /\ hist' = [hist EXCEPT !.calls = @ + 1, !.ticks = @ + 1, !.mid = FALSE]
    /\ UNCHANGED <<self, phase, imu, bus, mse, main, topics, mhist>>

analyse_call == AnalyseCall(Frames(hist.wh))

\* a frame of the default resolution is delivered
analyse_default_call == AnalyseCall(DefaultFrames(hist.wh))

\* a synthetic flow field is delivered
analyse_test_call == AnalyseCall(TestFrames(hist.wh))

\* lines 20-27; self.prev_time does not exist when setup has failed
analyse_L20 ==
    /\ cam.pc = "L20"
    /\ IF HasAttr(self, "prev_time")
       THEN \E curr_time \in ClockAfter(self.prev_time) :
              /\ cam' = [cam EXCEPT !.pc = "L29",
                                    !.diff_time = curr_time - self.prev_time]
              /\ self' = [self EXCEPT !.prev_time = curr_time]
       ELSE /\ cam' = [cam EXCEPT !.pc = "idle", !.raised = "AttributeError"]
            /\ self' = self
    /\ UNCHANGED <<phase, imu, bus, hist, mse, main, topics, mhist>>

\* line 29
analyse_L29 ==
    /\ cam.pc = "L29"
    /\ self' = [self EXCEPT !.x_motion =
                  MkLat(RSub(Zero, RMul(FromInt(ISum(cam.frame.x, DOMAIN cam.frame.x)),
                                        self.flow_coeff)),
                        RMul(self.ang_vx, Seconds(cam.diff_time)),
                        self.ang_coefficient)]
    /\ cam' = [cam EXCEPT !.pc = "L30", !.vx = self.ang_vx]
    /\ UNCHANGED <<phase, imu, bus, hist, mse, main, topics, mhist>>

\* a line 30 that also resets the weight of the compensation
analyse_L30_ResetsCoefficient ==
    /\ cam.pc = "L30"
    /\ self' = [self EXCEPT !.y_motion =
                  MkLat(RMul(FromInt(ISum(cam.frame.y, DOMAIN cam.frame.y)),
                             self.flow_coeff),
                        RMul(self.ang_vy, Seconds(cam.diff_time)),
                        self.ang_coefficient),
                  !.ang_coefficient = Zero]
    /\ cam' = [cam EXCEPT !.pc = "L31", !.vy = self.ang_vy]
    /\ UNCHANGED <<phase, imu, bus, hist, mse, main, topics, mhist>>

\* line 30
analyse_L30 ==
    /\ cam.pc = "L30"
    /\ self' = [self EXCEPT !.y_motion =
                  MkLat(RMul(FromInt(ISum(cam.frame.y, DOMAIN cam.frame.y)),
                             self.flow_coeff),
                        RMul(self.ang_vy, Seconds(cam.diff_time)),
                        self.ang_coefficient)]
    /\ cam' = [cam EXCEPT !.pc = "L31", !.vy = self.ang_vy]
    /\ UNCHANGED <<phase, imu, bus, hist, mse, main, topics, mhist>>

\* lines 31-42; np.multiply raises ValueError on grids of different shapes;
\* rospy.get_rostime() returns the reading of line 25, a call being shorter
\* than one unit of the clock
analyse_L31 ==
    /\ cam.pc = "L31"
    /\ IF DOMAIN cam.frame.x = DOMAIN self.z_filter_x
       THEN LET z == [a |-> FDot(cam.frame.x, self.z_filter_x),
                      b |-> FDot(cam.frame.y, self.z_filter_y)]
                yaw == [a |-> FDot(cam.frame.x, self.yaw_filter_x),
                        b |-> FDot(cam.frame.y, self.yaw_filter_y)]
            IN  /\ self' = [self EXCEPT
                              !.z_motion = z,
                              !.yaw_motion = yaw,
                              !.velocity = [linear_x |-> self.x_motion,
                                            linear_y |-> self.y_motion,
                                            linear_z |-> z,
                                            angular_z |-> yaw,
                                            stamp |-> self.prev_time]]
                /\ cam' = [cam EXCEPT !.pc = "L43"]
       ELSE /\ cam' = [cam EXCEPT !.pc = "idle", !.raised = "ValueError"]
            /\ self' = self
    /\ UNCHANGED <<phase, imu, bus, hist, mse, main, topics, mhist>>

\* line 43, the message is handed to the bus and analyse returns
analyse_L43 ==
    /\ cam.pc = "L43"
    /\ bus' = Publish(bus, self.velocity)
    /\ cam' = [cam EXCEPT !.pc = "idle"]
    /\ hist' = [hist EXCEPT !.returned = @ + 1, !.mid = FALSE]
    /\ UNCHANGED <<self, phase, imu, mse, main, topics, mhist>>

\* line 43, publish raises (rospy.ROSException: the topic is closed); nothing
\* in analyse catches it
analyse_L43_raise ==
    /\ cam.pc = "L43"
    /\ cam' = [cam EXCEPT !.pc = "idle", !.raised = "ROSException"]
    /\ hist' = [hist EXCEPT !.mid = FALSE]
    /\ UNCHANGED <<self, phase, imu, bus, mse, main, topics, mhist>>

-----------------------------------------------------------------------------
(* imu_callback: one call per orientation sample, run by the subscriber's  *)
(* thread, so that its statements interleave with those of analyse         *)

\* the names the module's import statements bind are np, picamera, cv2,
\* MultiWii, time, TwistStamped and rospy: tf is not among them
tf_bound == FALSE

\* an entry that converts the sample and takes the rate branch once a
\* baseline has been stored
ImuEntry_RateBranchTaken(s, msg) == IF HasAttr(s, "imu_time") THEN "L85" ELSE "L93"

\* lines 79-84: where a call goes after converting the sample and testing
\* self.prev_imu_time, an attribute that only setup assigns
ImuEntry(s, msg) ==
    IF ~tf_bound THEN "NameError"
    ELSE IF ~HasAttr(s, "prev_imu_time") THEN "AttributeError"
    ELSE IF s.prev_imu_time # 0 THEN "L85"
    ELSE "L93"

\* the statement at im.pc, lines 85-95: the attributes and the call after it
ImuStep(s, im) ==
    LET new_angx == im.msg.angx
        new_angy == im.msg.angy
        curr_time == im.msg.time
        Raise(e) == [self |-> s, imu |-> [im EXCEPT !.pc = "idle", !.raised = e]]
    IN  CASE im.pc = "L85" ->
               IF ~HasAttr(s, "prev_angx") \/ ~HasAttr(s, "imu_time")
               THEN Raise("AttributeError")
               ELSE IF curr_time - s.imu_time = 0 THEN Raise("ZeroDivisionError")
               ELSE LET v == RDiv(RSub(new_angx, s.prev_angx),
                                  Seconds(curr_time - s.imu_time))
                    IN  [self |-> SetAttrs(s, [ang_vx |-> v]),
                         imu |-> [im EXCEPT !.pc = "L86", !.wrote = v]]
          [] im.pc = "L86" ->
               IF ~HasAttr(s, "prev_angy") \/ ~HasAttr(s, "imu_time")
               THEN Raise("AttributeError")
               ELSE IF curr_time - s.imu_time = 0 THEN Raise("ZeroDivisionError")
               ELSE [self |-> SetAttrs(s, [ang_vy |->
                                 RDiv(RSub(new_angy, s.prev_angy),
                                      Seconds(curr_time - s.imu_time))]),
                     imu |-> [im EXCEPT !.pc = "L88"]]
          [] im.pc \in {"L88", "L93"} ->
               [self |-> SetAttrs(s, [prev_angx |-> new_angx, prev_angy |-> new_angy,
                                      imu_time |-> curr_time]),
                imu |-> [im EXCEPT !.pc = "idle"]]

imu_callback ==
    /\ phase \in {"ready", "setup_failed"}
    /\ IF imu.pc = "idle"
       THEN /\ hist.calls < MaxCalls
            /\ \E msg \in Samples :
                 LET to == ImuEntry(self, msg)
                 IN  /\ imu' = IF to \in {"L85", "L93"}
                               THEN [ImuIdle EXCEPT !.pc = to, !.msg = msg]
                               ELSE [ImuIdle EXCEPT !.msg = msg, !.raised = to]
                     /\ hist' = [hist EXCEPT
                                   !.calls = @ + 1,
                                   !.log = IF @ = <<>> THEN <<msg>> ELSE <<@[Len(@)], msg>>,
                                   !.before = IF HasAttr(self, "ang_vx")
                                              THEN <<self.ang_vx, self.ang_vy>> ELSE @,
                                   !.mid = @ \/ cam.pc = "L30"]
            /\ self' = self
       ELSE LET r == ImuStep(self, imu)
            IN  /\ self' = r.self
                /\ imu' = r.imu
                /\ hist' = IF imu.pc = "L86" /\ r.imu.pc = "L88"
                           THEN [hist EXCEPT !.pairs = @ \cup {<<imu.wrote, r.self.ang_vy>>}]
                           ELSE hist
    /\ UNCHANGED <<phase, cam, bus, mse, main, topics, mhist>>

Next ==
    \/ setup
    \/ analyse_call
    \/ analyse_L20
    \/ analyse_L29
    \/ analyse_L30
    \/ analyse_L31
    \/ analyse_L43
    \/ analyse_L43_raise
    \/ imu_callback

Spec == Init /\ [][Next]_vars

\* the estimator alone, fed the synthetic flow fields
NextFilter ==
    \/ setup_test
    \/ analyse_test_call
    \/ analyse_L20
    \/ analyse_L29
    \/ analyse_L30
    \/ analyse_L31
    \/ analyse_L43
    \/ analyse_L43_raise

SpecFilter == Init /\ [][NextFilter]_vars

\* the estimator alone, set up with the default resolution
NextDefault ==
    \/ setup_default
    \/ analyse_default_call
    \/ analyse_L20
    \/ analyse_L29
    \/ analyse_L30
    \/ analyse_L31
    \/ analyse_L43
    \/ analyse_L43_raise

SpecDefault == Init /\ [][NextDefault]_vars

-----------------------------------------------------------------------------
(* The mocap relay: main program and callbacks *)

\* a remap that leaves the axes as they are
Remap_Unchanged(v) == v

\* x = - x, y = z, z = y
Remap(v) == <<-v[1], v[3], v[2]>>

\* lines 89-111: the object, the node, the three publishers, the three
\* subscribers and the handler of ctrl-c
main_L89 ==
    /\ main = "L89"
    /\ mse' = [mse EXCEPT !.posepub = TopicOf.pose, !.twistpub = TopicOf.twist,
                          !.accelpub = TopicOf.accel]
    /\ main' = "L112"
    /\ UNCHANGED <<topics, mhist>>
    /\ UNCHANGED flowVars

\* lines 112-114: one test of the wait loop; rospy.sleep(2) brings the
\* program back to the test
main_L112 ==
    /\ main = "L112"
    /\ main' = IF mse.received_data THEN "L123" ELSE "L112"
    /\ UNCHANGED <<mse, topics, mhist>>
    /\ UNCHANGED flowVars

\* lines 81-84: sys.exit() in the main thread ends the program
ctrl_c_handler ==
    /\ main \in {"L112", "L123"}
    /\ main' = "exit"
    /\ UNCHANGED <<mse, topics, mhist>>
    /\ UNCHANGED flowVars

\* the subscribers deliver samples while the program runs
Subscribed == main \in {"L112", "L123"} /\ mhist.calls < MaxCalls

\* a callback of stream s has been called with msg; it has published
\* to_pub and returned, or publish has raised rospy.ROSException
Called(s, msg, publisher, to_pub, published) ==
    /\ topics' = IF published
                 THEN [topics EXCEPT ![publisher] = Publish(@, to_pub)]
                 ELSE topics
    /\ mhist' = [mhist EXCEPT
                   !.calls = @ + 1,
                   !.returned[s] = IF published THEN @ + 1 ELSE @,
                   !.sample[s] = IF published THEN msg ELSE @]

\* lines 31-47
pose_callback ==
    /\ Subscribed
    /\ \E msg \in PoseSamples, published \in BOOLEAN :
         LET orientation == Remap(<<msg.orientation[1], msg.orientation[2],
                                    msg.orientation[3]>>)
             pose_to_pub ==
               [PoseWithCovarianceStamped EXCEPT
                  !.stamp = msg.stamp,
                  !.frame_id = "World",
                  !.position = Remap(msg.position),
                  !.orientation = <<orientation[1], orientation[2],
                                    orientation[3], @[4]>>]
         IN  /\ Called("pose", msg, mse.posepub, pose_to_pub, published)
             /\ mse' = IF published THEN [mse EXCEPT !.received_data = TRUE]
                       ELSE mse
    /\ UNCHANGED main
    /\ UNCHANGED flowVars

\* lines 49-63
twist_callback ==
    /\ Subscribed
    /\ \E msg \in TwistSamples, published \in BOOLEAN :
         LET twist_to_pub ==
               [TwistWithCovarianceStamped EXCEPT
                  !.stamp = msg.stamp,
                  !.frame_id = "World",
                  !.linear = Remap(msg.linear),
                  !.angular = Remap(msg.angular)]
         IN  Called("twist", msg, mse.twistpub, twist_to_pub, published)
    /\ UNCHANGED <<mse, main>>
    /\ UNCHANGED flowVars

\* lines 65-79; line 71 reads accel_to_pub.header.stamp and assigns nothing
accel_callback ==
    /\ Subscribed
    /\ \E msg \in AccelSamples, published \in BOOLEAN :
         LET accel_to_pub ==
               [AccelWithCovarianceStamped EXCEPT
                  !.frame_id = "World",
                  !.linear = Remap(msg.linear),
                  !.angular = Remap(msg.angular)]
         IN  Called("accel", msg, mse.accelpub, accel_to_pub, published)
    /\ UNCHANGED <<mse, main>>
    /\ UNCHANGED flowVars

NextMocap ==
    \/ main_L89
    \/ main_L112
    \/ ctrl_c_handler
    \/ pose_callback
    \/ twist_callback
    \/ accel_callback

SpecMocap == Init /\ [][NextMocap]_vars

\* the main thread is scheduled: rospy.sleep(2) returns and the loop of
\* lines 112-114 tests the flag again
FairMocap == SpecMocap /\ WF_vars(main_L112)

-----------------------------------------------------------------------------
(* Observations used by the properties                                     *)
(*   hist.wh      the resolution given to setup                            *)
(*   hist.log     the last two orientation samples delivered               *)
(*   hist.before  the held rates when the latest imu_callback call began   *)
(*   hist.pairs   the (ang_vx, ang_vy) pairs written by one call each      *)
(*   hist.mid     an imu_callback call began between the two rate reads of *)
(*                the analyse call in progress (FALSE when none is)        *)
(*   hist.returned  the analyse calls that returned normally               *)
(*   cam.vx, cam.vy the rates read by lines 29 and 30 of the latest call   *)

ImuDone == phase = "ready" /\ imu.pc = "idle"

BaselineIs(msg) ==
    /\ HasAttr(self, "imu_time")
    /\ self.imu_time = msg.time
    /\ self.prev_angx = msg.angx
    /\ self.prev_angy = msg.angy

\* C1: after two consecutive samples with t1 < t2 the held rates are the
\* difference quotients (roll2 - roll1)/(t2 - t1) and (pitch2 - pitch1)/(t2 - t1)
\* and the stored baseline is the second sample.
C1_RatesAreDifferenceQuotients ==
    (ImuDone /\ Len(hist.log) = 2 /\ hist.log[1].time < hist.log[2].time)
      => /\ imu.raised = "none"
         /\ self.ang_vx = RDiv(RSub(hist.log[2].angx, hist.log[1].angx),
                               Seconds(hist.log[2].time - hist.log[1].time))
         /\ self.ang_vy = RDiv(RSub(hist.log[2].angy, hist.log[1].angy),
                               Seconds(hist.log[2].time - hist.log[1].time))
         /\ BaselineIs(hist.log[2])

\* C2: the first imu_callback call after setup stores the sample's angles and
\* time stamp as the baseline and leaves both held rates at zero.
C2_FirstSampleSeedsBaseline ==
    (ImuDone /\ Len(hist.log) = 1)
      => /\ imu.raised = "none"
         /\ BaselineIs(hist.log[1])
         /\ self.ang_vx = Zero
         /\ self.ang_vy = Zero

\* C3: a call whose sample carries the time stamp of the previous sample
\* returns normally and leaves the held rates as they were before the call.
C3_DuplicateStampIsNoUpdate ==
    (ImuDone /\ Len(hist.log) = 2 /\ hist.log[1].time = hist.log[2].time)
      => /\ imu.raised = "none"
         /\ <<self.ang_vx, self.ang_vy>> = hist.before

C5_OnePublishPerTick ==
    /\ bus.n = hist.returned
    /\ (phase = "ready" /\ cam.pc = "idle" /\ cam.raised = "none" /\ hist.returned > 0)
         => /\ bus.last.linear_x = self.x_motion
            /\ bus.last.linear_y = self.y_motion
            /\ bus.last.linear_z = self.z_motion
            /\ bus.last.angular_z = self.yaw_motion

\* C5, witness: two frames were published, with an orientation sample
\* delivered as well.
C5_Witness ==
    /\ bus.n = 2
    /\ hist.returned = 2
    /\ cam.pc = "idle"
    /\ Len(hist.log) = 1
    /\ bus.last.linear_x # LatZero

\* C6: whatever the publish step does, analyse returns normally to the
\* camera's callback context.
C6_PublishFailureContained ==
    (phase = "ready" /\ cam.pc = "idle") => cam.raised = "none"

\* C7: setup fails exactly for a resolution whose width or height is no
\* multiple of 16, and then no attribute of the estimator is populated, no
\* frame is processed and nothing is published.
C7_InvalidGeometryRejected ==
    phase # "new"
      => /\ phase = "setup_failed" <=> (hist.wh[1] % 16 # 0 \/ hist.wh[2] % 16 # 0)
         /\ phase = "setup_failed"
              => /\ DOMAIN self = {}
                 /\ bus.n = 0
                 /\ hist.returned = 0
                 /\ cam.pc \in {"idle", "L20"}

\* C7, witness: setup has failed and a frame delivered afterwards was refused.
C7_Witness ==
    /\ phase = "setup_failed"
    /\ cam.pc = "idle"
    /\ cam.raised = "AttributeError"

\* the sum of the squares of the weights of grid g is 1
UnitNorm(g) ==
    /\ \A c \in DOMAIN g : IsFinite(g[c])
    /\ RSum([c \in DOMAIN g |-> RDiv(RMul(g[c].n, g[c].n), g[c].r)], DOMAIN g) = One

\* C8: after setup with any valid resolution the Euclidean norm of z_filter_x
\* and of z_filter_y is 1.
C8_FiltersUnitNorm ==
    phase = "ready" => UnitNorm(self.z_filter_x) /\ UnitNorm(self.z_filter_y)

\* C9: after setup and after any sequence of calls, in every cell
\* yaw_filter_x equals z_filter_y and yaw_filter_y equals -z_filter_x.
C9_YawIsRotatedZ ==
    phase = "ready"
      => \A c \in DOMAIN self.z_filter_x :
           /\ FEq(self.yaw_filter_x[c], self.z_filter_y[c])
           /\ FEq(self.yaw_filter_y[c], FNeg(self.z_filter_x[c]))

\* C10: a frame with dx = k and dy = 0 in every cell gives z_motion = 0 and
\* yaw_motion = 0, and with zero held rates x_motion = -k * cell_count * flow_coeff.
C10_UniformFlowResponse ==
    \A k \in FlowVals :
      (/\ phase = "ready"
       /\ cam.pc = "idle"
       /\ cam.raised = "none"
       /\ hist.returned > 0
       /\ cam.frame = Uniform(hist.wh, k, 0))
        => /\ DotIsZero(self.z_motion)
           /\ DotIsZero(self.yaw_motion)
           /\ (self.ang_vx = Zero
                 => self.x_motion =
                      MkLat(RMul(FromInt(-k * Cardinality(FrameCells(hist.wh))),
                                 self.flow_coeff), Zero, Zero))

-----------------------------------------------------------------------------
(* Responses to synthetic flow fields, under SpecFilter *)

\* lines 31-34 have run on the frame held by the camera thread
Filtered == phase = "ready" /\ cam.pc = "L43"

\* z = g * (sqrt(z.a.r) + sqrt(z.b.r)): a finite response proportional to g,
\* with a positive factor that depends on the grid alone
ProportionalTo(z, g) ==
    /\ IsFinite(z.a)
    /\ IsFinite(z.b)
    /\ z.a.n = RMul(FromInt(g), z.a.r)
    /\ z.b.n = RMul(FromInt(g), z.b.r)

\* C11: a radial flow field of gain g gives a z_motion proportional to g
\* (positive for g > 0, negative for g < 0), a yaw_motion of zero and no flow
\* contribution to x_motion and y_motion, on every grid that setup accepts.
C11_RadialIsVertical ==
    \A g \in Gains :
        Filtered /\ cam.frame = Radial(hist.wh, g) =>
            /\ ProportionalTo(self.z_motion, g)
            /\ DotIsZero(self.yaw_motion)
            /\ self.x_motion.q = Zero
            /\ self.y_motion.q = Zero

\* C12: a tangential flow field of gain g gives a yaw_motion proportional to
\* g (non-zero for g # 0), a z_motion of zero and no flow contribution to
\* x_motion and y_motion, on every grid that setup accepts.
C12_TangentialIsYaw ==
    \A g \in Gains :
        Filtered /\ cam.frame = Tangential(hist.wh, g) =>
            /\ ProportionalTo(self.yaw_motion, g)
            /\ DotIsZero(self.z_motion)
            /\ self.x_motion.q = Zero
            /\ self.y_motion.q = Zero

-----------------------------------------------------------------------------
(* The default resolution, under SpecDefault *)

\* the first call of analyse has published its message and returned
FirstTickPublished ==
    /\ phase = "ready"
    /\ hist.ticks = 1
    /\ cam.pc = "idle"
    /\ bus.n = 1

\* C13: after setup with 320x240 the four filter grids have the shape of a
\* frame, 15 rows by 21 columns with the padding column, and a frame without
\* motion processed as the first tick publishes zero linear x, y, z and zero
\* angular z.
C13_ZeroFrameEndToEnd ==
    phase = "ready" /\ hist.wh = <<320, 240>> =>
        /\ \A grid \in {"z_filter_x", "z_filter_y", "yaw_filter_x", "yaw_filter_y"} :
              /\ DOMAIN self[grid] = Cells(15, 21)
              /\ DOMAIN self[grid] = FrameCells(hist.wh)
        /\ FirstTickPublished /\ cam.frame = Uniform(hist.wh, 0, 0) =>
              /\ bus.last.linear_x = LatZero
              /\ bus.last.linear_y = LatZero
              /\ DotIsZero(bus.last.linear_z)
              /\ DotIsZero(bus.last.angular_z)

C13_Witness ==
    /\ hist.wh = <<320, 240>>
    /\ FirstTickPublished
    /\ cam.frame = Uniform(hist.wh, 0, 0)
    /\ bus.last.linear_x = LatZero
    /\ DotIsZero(bus.last.linear_z)

-----------------------------------------------------------------------------
(* The first frame and the frame of analyse, under Spec *)

\* the first call of analyse has run lines 29 and 30
FirstTickLateral == phase = "ready" /\ hist.ticks = 1 /\ cam.pc \in {"L31", "L43"}

\* the scaled flow sums of lines 29 and 30
ScaledFlowSum(grid) == RMul(FromInt(ISum(grid, DOMAIN grid)), self.flow_coeff)

AnalyseWrites ==
    {"prev_time", "x_motion", "y_motion", "z_motion", "yaw_motion", "velocity"}

\* a step of the camera thread, which is the only one to move cam
AnalyseStep == cam' # cam

\* C17: a step of analyse changes no attribute but prev_time, the four motion
\* fields and the velocity message: the held rates, the stored baseline, the
\* four filter grids, max_flow, flow_coeff and ang_coefficient keep their
\* values, and no attribute is added or removed.
C17_FrameOfAnalyse ==
    [][AnalyseStep =>
         /\ DOMAIN self' = DOMAIN self
         /\ \A a \in DOMAIN self \ AnalyseWrites : self'[a] = self[a]]_vars

\* an analyse call has run to line 43 on a frame with flow, and the
\* attributes the claim names are there to be kept
C17_Witness ==
    /\ phase = "ready"
    /\ cam.pc = "L43"
    /\ self.prev_time > 0
    /\ self.x_motion.q # Zero
    /\ {"ang_vx", "ang_vy", "prev_angx", "prev_angy", "prev_imu_time",
        "z_filter_x", "z_filter_y", "yaw_filter_x", "yaw_filter_y",
        "max_flow", "flow_coeff", "ang_coefficient"} \subseteq DOMAIN self

-----------------------------------------------------------------------------
(* The padding column, under Spec *)

\* the index of the trailing padding column of the grids
PaddingColumn == hist.wh[1] \div BlockSize

\* grid x with its padding column set to zero
WithoutPadding(x) == [c \in DOMAIN x |-> IF c[2] = PaddingColumn THEN 0 ELSE x[c]]

\* C18: the four filter grids have weight zero in the padding column, and
\* z_motion and yaw_motion computed from a frame are the ones computed from
\* the frame that has zeros in the padding column and is equal elsewhere.
C18_PaddingHasNoInfluence ==
    phase = "ready" =>
        /\ \A grid \in {"z_filter_x", "z_filter_y", "yaw_filter_x", "yaw_filter_y"} :
             \A c \in DOMAIN self[grid] :
                c[2] = PaddingColumn =>
                    IsFinite(self[grid][c]) /\ self[grid][c].n = Zero
        /\ cam.pc = "L43" =>
             /\ FEq(self.z_motion.a, FDot(WithoutPadding(cam.frame.x), self.z_filter_x))
             /\ FEq(self.z_motion.b, FDot(WithoutPadding(cam.frame.y), self.z_filter_y))
             /\ FEq(self.yaw_motion.a, FDot(WithoutPadding(cam.frame.x), self.yaw_filter_x))
             /\ FEq(self.yaw_motion.b, FDot(WithoutPadding(cam.frame.y), self.yaw_filter_y))

-----------------------------------------------------------------------------
(* The mocap relay, under SpecMocap *)

\* the last message on the topic of stream s
LastOn(s) == topics[TopicOf[s]].last

\* a callback of stream s has published and returned
Relayed(s) == mhist.returned[s] > 0

\* C14: once the callback of a sample has run, whichever of the three streams
\* delivered the sample, received_data is true (and so the wait loop of the
\* main program finds the flag set at its next test).
C14_FirstSampleSignalsData ==
    (\E s \in Streams : Relayed(s)) => mse.received_data

\* under FairMocap the wait loop ends once a pose sample has been relayed
WaitLoopEndsAfterPose == Relayed("pose") ~> main \in {"L123", "exit"}

\* C15: the last message on each topic is the remap of the last sample of
\* its stream, x = - x, y = z, z = y, for the position and the x, y, z of the
\* orientation of a pose, and for the linear and the angular part of a twist
\* and of an acceleration; and every topic holds one message for each
\* callback of its stream that returned.
C15_AxisRemap ==
    /\ \A s \in Streams : topics[TopicOf[s]].n = mhist.returned[s]
    /\ Relayed("pose") =>
         LET src == mhist.sample.pose
             out == LastOn("pose")
         IN  /\ out.position = <<-src.position[1], src.position[3], src.position[2]>>
             /\ out.orientation[1] = -src.orientation[1]
             /\ out.orientation[2] = src.orientation[3]
             /\ out.orientation[3] = src.orientation[2]
    /\ \A s \in {"twist", "accel"} :
         Relayed(s) =>
           LET src == mhist.sample[s]
               out == LastOn(s)
           IN  /\ out.linear = <<-src.linear[1], src.linear[3], src.linear[2]>>
               /\ out.angular = <<-src.angular[1], src.angular[3], src.angular[2]>>

\* each stream has relayed one sample, the pose one that the remap changes
C15_Witness ==
    /\ \A s \in Streams : mhist.returned[s] = 1
    /\ mhist.sample.pose.position = <<5, 10, 15>>
    /\ mhist.sample.pose.orientation = <<3, 0, 0, 4>>
    /\ LastOn("pose").position = <<-5, 15, 10>>
    /\ LastOn("accel").angular = <<0, 10, -5>>

\* C19: the last message on each topic carries the time stamp of the sample
\* it was made from and the frame id 'World'.
C19_RelayKeepsStamp ==
    \A s \in Streams :
        Relayed(s) =>
            /\ LastOn(s).stamp = mhist.sample[s].stamp
            /\ LastOn(s).frame_id = "World"

\* the squared norm of a quaternion
QuatNormSq(q) == q[1] * q[1] + q[2] * q[2] + q[3] * q[3] + q[4] * q[4]

\* C20: the orientation republished for a pose of unit-norm orientation has
\* unit norm, with the w of the source.
C20_PoseOrientationStaysUnit ==
    Relayed("pose") /\ QuatNormSq(mhist.sample.pose.orientation) = UnitSq =>
        /\ QuatNormSq(LastOn("pose").orientation) = UnitSq
        /\ LastOn("pose").orientation[4] = mhist.sample.pose.orientation[4]

=============================================================================
